---- MODULE Spec2Model ----
(***************************************************************************)
(* Model of lib/http/httpauth/auth.go: the credential store built by      *)
(* NewAuthenticator, the Www-Authenticate challenge parser, the Digest     *)
(* engine (getDigestAuth) and the dispatch in TryGetAuth.                  *)
(*                                                                         *)
(* A Go string is a sequence of characters; a character is a one-letter    *)
(* TLA+ string.  The output of a hash function is one atomic element       *)
(* (a symbolic digest, injective in the algorithm and the hashed text).    *)
(***************************************************************************)
EXTENDS Integers, Sequences, FiniteSets, TLC

VARIABLES
    pc,             \* "start" before NewAuthenticator returns, "built" after,
                    \* "returned" when a call on the store has just returned
    disk,           \* the file system: file name -> lines of the file
    credsFilename,  \* NewAuthenticator's first argument
    hostsToCreds,   \* NewAuthenticator's second argument (a Go map, maybe nil)
    fileHostsToCreds, \* NewAuthenticator's local: what readCreds returned
    auther,         \* the authenticator returned: [creds |-> host -> credential]
    err,            \* the error returned by NewAuthenticator
    call,           \* the function last called and its arguments
    returned        \* what the last call returned

vars == <<pc, disk, credsFilename, hostsToCreds, fileHostsToCreds, auther, err,
          call, returned>>

----------------------------------------------------------------------------
(* Bounds of the model *)

\* longest credentials-file line drawn for the parsing specification
MaxLineLen == 7
\* most lines of a credentials file
MaxLines == 3
\* longest quoted value of a generated challenge, in value tokens
MaxValLen == 2
\* longest free-form header drawn for the parser
MaxHeaderLen == 4

----------------------------------------------------------------------------
(* Go strings: package strings and slicing *)

\* the strings over an alphabet of at most n characters
StringsUpTo(alphabet, n) == UNION {[1..k -> alphabet] : k \in 0..n}

\* s[i:] of Go, i counted from 0
From(s, i) == SubSeq(s, i + 1, Len(s))

\* strings.HasPrefix
HasPrefix(s, prefix) ==
    /\ Len(s) >= Len(prefix)
    /\ SubSeq(s, 1, Len(prefix)) = prefix

\* strings.HasSuffix
HasSuffix(s, suffix) ==
    /\ Len(s) >= Len(suffix)
    /\ SubSeq(s, Len(s) - Len(suffix) + 1, Len(s)) = suffix

\* strings.Index, counted from 0; -1 when sep does not occur
Index(s, sep) ==
    LET hits == {i \in 0..(Len(s) - Len(sep)) : HasPrefix(From(s, i), sep)}
    IN  IF hits = {} THEN -1 ELSE CHOOSE i \in hits : \A j \in hits : i <= j

\* strings.Split with a non-empty separator
RECURSIVE Split(_, _)
Split(s, sep) ==
    LET i == Index(s, sep)
    IN  IF i = -1 THEN <<s>>
        ELSE <<SubSeq(s, 1, i)>> \o Split(From(s, i + Len(sep)), sep)

\* strings.Join
RECURSIVE Join(_, _)
Join(parts, sep) ==
    IF Len(parts) = 0 THEN <<>>
    ELSE IF Len(parts) = 1 THEN parts[1]
    ELSE parts[1] \o sep \o Join(Tail(parts), sep)

\* strings.Replace(s, old, new, -1) with a non-empty old
RECURSIVE ReplaceAll(_, _, _)
ReplaceAll(s, old, new) ==
    LET i == Index(s, old)
    IN  IF i = -1 THEN s
        ELSE SubSeq(s, 1, i) \o new \o ReplaceAll(From(s, i + Len(old)), old, new)

\* a Go map read: the zero value "" for a missing key
Lookup(m, key) == IF key \in DOMAIN m THEN m[key] ELSE <<>>

\* a Go map write
Store(m, key, value) ==
    [k \in DOMAIN m \cup {key} |-> IF k = key THEN value ELSE m[k]]

EmptyMap == [k \in {} |-> <<>>]

\* a Go map value that may be nil
NilMap == [isNil |-> TRUE, m |-> EmptyMap]
MapOf(m) == [isNil |-> FALSE, m |-> m]

NoError == "nil"
OpenError == "open: no such file or directory"

----------------------------------------------------------------------------
(* The credential store *)

\* os.Open and the bufio.Scanner loop of readCreds: one map write per line
RECURSIVE scanLines(_, _)
scanLines(lines, creds) ==
    IF Len(lines) = 0 THEN creds
    ELSE LET line == Head(lines)
             parts == Split(line, <<" ">>)
             host == parts[1]
             userpass == IF Len(parts) > 1 THEN Join(Tail(parts), <<" ">>) ELSE <<>>
         IN  scanLines(Tail(lines), Store(creds, host, userpass))

\* readCreds with the error of os.Open dropped
readCredsNoError(fs, filename) ==
    IF filename \notin DOMAIN fs
    THEN [creds |-> NilMap, err |-> NoError]
    ELSE [creds |-> MapOf(scanLines(fs[filename], EmptyMap)), err |-> NoError]

readCreds(fs, filename) ==
    IF filename \notin DOMAIN fs
    THEN [creds |-> NilMap, err |-> OpenError]
    ELSE [creds |-> MapOf(scanLines(fs[filename], EmptyMap)), err |-> NoError]

\* credentialOf with the password cut at the second colon
credentialOfSecondPart(userpass) ==
    LET creds == Split(userpass, <<":">>)
    IN  [Username |-> creds[1], Password |-> IF Len(creds) > 1 THEN creds[2] ELSE <<>>]

\* the body of populate's loop: one payload split into a credential
credentialOf(userpass) ==
    LET creds == Split(userpass, <<":">>)
        user == creds[1]
        pass == IF Len(creds) > 1 THEN Join(Tail(creds), <<":">>) ELSE <<>>
    IN  [Username |-> user, Password |-> pass]

\* populate: every host of hostsToCreds is written, whatever the order of the
\* range (the keys of a map are distinct); ranging over a nil map writes nothing
populate(result, hostsMap) ==
    [creds |->
        [h \in DOMAIN result.creds \cup DOMAIN hostsMap.m |->
            IF h \in DOMAIN hostsMap.m
            THEN credentialOf(hostsMap.m[h])
            ELSE result.creds[h]]]

\* NewAuthenticator with the two calls of populate in the other order
newAuthenticatorFileLast(fs, filename, explicit) ==
    LET empty == [creds |-> EmptyMap]
        read == readCreds(fs, filename)
        afterMap == IF ~explicit.isNil THEN populate(empty, explicit) ELSE empty
        afterFile == IF filename # "" THEN populate(afterMap, read.creds) ELSE afterMap
    IN  [auther |-> afterFile, err |-> IF filename # "" THEN read.err ELSE NoError,
         fileHostsToCreds |-> IF filename # "" THEN read.creds ELSE NilMap]

\* NewAuthenticator as a function of the file system and its two arguments
newAuthenticator(fs, filename, explicit) ==
    LET empty == [creds |-> EmptyMap]
        read == readCreds(fs, filename)
        afterFile == IF filename # "" THEN populate(empty, read.creds) ELSE empty
        fileErr == IF filename # "" THEN read.err ELSE NoError
        afterMap == IF ~explicit.isNil THEN populate(afterFile, explicit) ELSE afterFile
    IN  [auther |-> afterMap, err |-> fileErr,
         fileHostsToCreds |-> IF filename # "" THEN read.creds ELSE NilMap]

----------------------------------------------------------------------------
(* Bytes, base64 and the hash functions *)

\* the printable ASCII characters, from code 32 (space) to code 126 (code 96,
\* the grave accent, is spelled out)
Ascii == <<
    " ", "!", "\"", "#", "$", "%", "&", "'", "(", ")", "*", "+", ",", "-", ".", "/",
    "0", "1", "2", "3", "4", "5", "6", "7", "8", "9", ":", ";", "<", "=", ">", "?",
    "@", "A", "B", "C", "D", "E", "F", "G", "H", "I", "J", "K", "L", "M", "N", "O",
    "P", "Q", "R", "S", "T", "U", "V", "W", "X", "Y", "Z", "[", "\\", "]", "^", "_",
    "grave", "a", "b", "c", "d", "e", "f", "g", "h", "i", "j", "k", "l", "m", "n", "o",
    "p", "q", "r", "s", "t", "u", "v", "w", "x", "y", "z", "{", "|", "}", "~">>

\* []byte(s): the byte of an ASCII character
Ord(c) == 31 + CHOOSE i \in 1..Len(Ascii) : Ascii[i] = c
Bytes(s) == [i \in 1..Len(s) |-> Ord(s[i])]

\* the alphabet of base64.StdEncoding
encodeStd == <<
    "A", "B", "C", "D", "E", "F", "G", "H", "I", "J", "K", "L", "M", "N", "O", "P",
    "Q", "R", "S", "T", "U", "V", "W", "X", "Y", "Z", "a", "b", "c", "d", "e", "f",
    "g", "h", "i", "j", "k", "l", "m", "n", "o", "p", "q", "r", "s", "t", "u", "v",
    "w", "x", "y", "z", "0", "1", "2", "3", "4", "5", "6", "7", "8", "9", "+", "/">>

B64(i) == encodeStd[i + 1]

\* base64.StdEncoding.EncodeToString: 3 bytes to 4 characters, "=" padding
RECURSIVE EncodeToString(_)
EncodeToString(b) ==
    IF Len(b) = 0 THEN <<>>
    ELSE IF Len(b) = 1 THEN
        <<B64(b[1] \div 4), B64((b[1] % 4) * 16), "=", "=">>
    ELSE IF Len(b) = 2 THEN
        <<B64(b[1] \div 4), B64((b[1] % 4) * 16 + b[2] \div 16),
          B64((b[2] % 16) * 4), "=">>
    ELSE
        <<B64(b[1] \div 4), B64((b[1] % 4) * 16 + b[2] \div 16),
          B64((b[2] % 16) * 4 + b[3] \div 64), B64(b[3] % 64)>>
        \o EncodeToString(From(b, 3))

\* the text of a string as one TLA+ string
RECURSIVE Flatten(_)
Flatten(s) ==
    IF Len(s) = 0 THEN ""
    ELSE IF Len(s) = 1 THEN s[1]
    ELSE LET mid == Len(s) \div 2
         IN  Flatten(SubSeq(s, 1, mid)) \o Flatten(SubSeq(s, mid + 1, Len(s)))

\* a hex digest: one atomic element naming the function and the hashed text
HexDigest(fn, s) == <<fn \o "(" \o Flatten(s) \o ")">>

MD5 == <<"M", "D", "5">>
SHA256 == <<"S", "H", "A", "-", "2", "5", "6">>
SHA512256 == <<"S", "H", "A", "-", "5", "1", "2", "-", "2", "5", "6">>
SessSuffix == <<"-", "s", "e", "s", "s">>

\* the registry of hash functions: name -> function
algorithms ==
    [name \in {MD5, SHA256, SHA512256} |->
        IF name = MD5 THEN "md5"
        ELSE IF name = SHA256 THEN "sha256" ELSE "sha512_256"]

keyedDigest(h, secret, data) == HexDigest(h, secret \o <<":">> \o data)

valueOrDefault(value, def) == IF value # <<>> THEN value ELSE def

\* bytes read by generateClientNonce
NonceBytes == 32

\* generateClientNonce, given what rand.Read did
generateClientNonce(rand) ==
    IF rand.err THEN [cnonce |-> <<>>, err |-> TRUE]
    ELSE [cnonce |-> EncodeToString(rand.b), err |-> FALSE]

----------------------------------------------------------------------------
(* The challenge parser *)

\* what a Go slice expression out of range does
Panic == <<"panic: runtime error: slice bounds out of range">>

\* scanChar that takes a quote after a backslash for a quote like any other
scanCharNoEscape(st, c) ==
    IF c = "=" /\ ~st.inQuotes
    THEN [st EXCEPT !.tokens = Append(st.tokens, st.chunk), !.chunk = <<>>]
    ELSE [st EXCEPT !.inQuotes = IF c = "\"" THEN ~@ ELSE @,
                    !.escaped = FALSE,
                    !.chunk = Append(st.chunk, c)]

\* one pass of the first loop of parseWwwAuth over the character c
scanChar(st, c) ==
    IF c = "=" /\ ~st.inQuotes
    THEN [st EXCEPT !.tokens = Append(st.tokens, st.chunk), !.chunk = <<>>]
    ELSE [st EXCEPT !.inQuotes = IF c = "\"" /\ ~st.escaped THEN ~@ ELSE @,
                    !.escaped = IF c = "\\" THEN ~@ ELSE FALSE,
                    !.chunk = Append(st.chunk, c)]

\* the passes over the characters of s, in order (the state is evaluated before
\* the range is halved, which keeps the evaluation shallow)
RECURSIVE scanChars(_, _)
scanChars(st, s) ==
    IF st.inQuotes \in BOOLEAN /\ Len(s) = 0 THEN st
    ELSE IF Len(s) = 1 THEN scanChar(st, s[1])
    ELSE LET mid == Len(s) \div 2
         IN  scanChars(scanChars(st, SubSeq(s, 1, mid)), SubSeq(s, mid + 1, Len(s)))

\* the first loop of parseWwwAuth: the header cut at every "=" outside quotes
tokenize(header) ==
    LET st == scanChars([inQuotes |-> FALSE, escaped |-> FALSE,
                         chunk |-> <<>>, tokens |-> <<>>], header)
    IN  Append(st.tokens, st.chunk)

\* the value parseWwwAuth reads from the segment after an "=":
\* token[:1] of an empty token and value[len(value)-1:] of an empty value panic
valueOf(token) ==
    IF Len(token) = 0 THEN [panic |-> TRUE, value |-> <<>>]
    ELSE LET value ==
                 IF token[1] = "\""
                 THEN LET parts == Split(token, <<"\"">>)
                      IN  Join(SubSeq(parts, 1, Len(parts) - 1), <<"\"">>) \o <<"\"">>
                 ELSE Split(token, <<" ">>)[1]
         IN  IF Len(value) = 0 THEN [panic |-> TRUE, value |-> <<>>]
             ELSE IF value[Len(value)] = ","
                  THEN [panic |-> FALSE, value |-> SubSeq(value, 1, Len(value) - 1)]
                  ELSE [panic |-> FALSE, value |-> value]

\* the second loop of parseWwwAuth, from the i-th pair of adjacent segments on
RECURSIVE parseParameters(_, _, _)
parseParameters(tokens, i, parameters) ==
    IF i >= Len(tokens) THEN [panic |-> FALSE, parameters |-> parameters]
    ELSE LET prevParts == Split(tokens[i], <<" ">>)
             name == prevParts[Len(prevParts)]
             v == valueOf(tokens[i + 1])
         IN  IF v.panic THEN [panic |-> TRUE, parameters |-> EmptyMap]
             ELSE parseParameters(tokens, i + 1, Store(parameters, name, v.value))

parseWwwAuth(header) ==
    parseParameters(tokenize(header), 1, EmptyMap)

unquote(s) ==
    IF Len(s) >= 2
    THEN LET inner == IF s[1] = "\"" /\ s[Len(s)] = "\""
                      THEN SubSeq(s, 2, Len(s) - 1) ELSE s
         IN  ReplaceAll(inner, <<"\\", "\"">>, <<"\"">>)
    ELSE s

----------------------------------------------------------------------------
(* Requests and responses *)

\* a request: its method, URL.Hostname() and URL.RequestURI()
Request(method, host, uri) == [Method |-> method, Hostname |-> host, RequestURI |-> uri]

\* a response: nil, or with a nil Header, or with the value Header.Get gives for
\* Www-Authenticate ("" when the header is not set)
NilResponse == [isNil |-> TRUE, headerIsNil |-> TRUE, WwwAuthenticate |-> <<>>]
NilHeaderResponse == [isNil |-> FALSE, headerIsNil |-> TRUE, WwwAuthenticate |-> <<>>]
Response(h) == [isNil |-> FALSE, headerIsNil |-> FALSE, WwwAuthenticate |-> h]

----------------------------------------------------------------------------
(* The Digest engine *)

\* the names parseWwwAuth's mapping is read at
algorithmKey == <<"a", "l", "g", "o", "r", "i", "t", "h", "m">>
realmKey == <<"r", "e", "a", "l", "m">>
nonceKey == <<"n", "o", "n", "c", "e">>
qopKey == <<"q", "o", "p">>
userhashKey == <<"u", "s", "e", "r", "h", "a", "s", "h">>
opaqueKey == <<"o", "p", "a", "q", "u", "e">>

\* fmt.Sprintf("%08x", 1)
nc == <<"0", "0", "0", "0", "0", "0", "0", "1">>

\* a return of getDigestAuth: the string returned, the line it returned at and
\* the values of its locals there
DigestReturn(at, ret, sess, algoString, qop, a1) ==
    [panic |-> FALSE, at |-> at, ret |-> ret, sess |-> sess,
     algoString |-> algoString, qop |-> qop, a1 |-> a1]

DigestPanic ==
    [panic |-> TRUE, at |-> "parseWwwAuth", ret |-> Panic, sess |-> FALSE,
     algoString |-> <<>>, qop |-> <<>>, a1 |-> <<>>]

\* getDigestAuth resolving every unknown algorithm name to MD5
resolveAlgorithmFallback(params) ==
    LET algoRaw == valueOrDefault(Lookup(params, algorithmKey), MD5)
        sess == HasSuffix(algoRaw, SessSuffix)
        algoString == IF sess THEN SubSeq(algoRaw, 1, Len(algoRaw) - 5) ELSE algoRaw
    IN  [sess |-> sess,
         algoString |-> IF algoString \in DOMAIN algorithms THEN algoString ELSE MD5,
         found |-> TRUE]

\* the algorithm step of getDigestAuth: the default, the "-sess" suffix, the lookup
resolveAlgorithm(params) ==
    LET algoRaw == valueOrDefault(Lookup(params, algorithmKey), MD5)
        sess == HasSuffix(algoRaw, SessSuffix)
        algoString == IF sess THEN SubSeq(algoRaw, 1, Len(algoRaw) - 5) ELSE algoRaw
    IN  [sess |-> sess, algoString |-> algoString,
         found |-> algoString \in DOMAIN algorithms]

\* getDigestAuth from the parsed parameters on
digestOf(creds, req, params, rand) ==
    LET resolved == resolveAlgorithm(params)
        sess == resolved.sess
        algoString == resolved.algoString
    IN  IF ~resolved.found
        THEN DigestReturn("algorithm", <<>>, sess, algoString, <<>>, <<>>)
        ELSE
        LET algo == algorithms[algoString]
            realm == Lookup(params, realmKey)
            nonce == Lookup(params, nonceKey)
            gen == generateClientNonce(rand)
            cnonce == gen.cnonce
        IN  IF gen.err
            THEN DigestReturn("cnonce", <<>>, sess, algoString, <<>>, <<>>)
            ELSE
            LET a1Components == <<unquote(creds.Username), unquote(realm), creds.Password>>
                a1 == IF sess
                      THEN Join(<<HexDigest(algo, Join(a1Components, <<":">>)),
                                  unquote(nonce), unquote(cnonce)>>, <<":">>)
                      ELSE Join(a1Components, <<":">>)
                method == valueOrDefault(req.Method, <<"G", "E", "T">>)
                requestURI == req.RequestURI
                qopOptions == Split(valueOrDefault(Lookup(params, qopKey), <<"a", "u", "t", "h">>),
                                    <<",", " ">>)
                qop == IF Len(qopOptions) > 1
                       THEN qopOptions[1] \o <<"\"">> ELSE qopOptions[1]
            IN  IF qop = <<"a", "u", "t", "h", "-", "i", "n", "t">>
                THEN DigestReturn("qop", <<>>, sess, algoString, qop, a1)
                ELSE
                LET a2 == Join(<<method, requestURI>>, <<":">>)
                    dataComponents == <<unquote(nonce), nc, unquote(cnonce),
                                        unquote(qop), HexDigest(algo, a2)>>
                    response == <<"\"">>
                        \o keyedDigest(algo, HexDigest(algo, a1),
                                       Join(dataComponents, <<":">>))
                        \o <<"\"">>
                    userhash == valueOrDefault(Lookup(params, userhashKey), <<"f", "a", "l", "s", "e">>)
                    username == IF userhash = <<"t", "r", "u", "e">>
                                THEN HexDigest(algo, unquote(creds.Username) \o <<":">>
                                                     \o unquote(realm))
                                ELSE creds.Username
                    opaque == Lookup(params, opaqueKey)
                    \* Digest username="
                    head == <<"D", "i", "g", "e", "s", "t", " ", "u", "s", "e", "r", "n", "a", "m", "e", "=", "\"">> \o username
                        \* ", realm=
                        \o <<"\"", ",", " ", "r", "e", "a", "l", "m", "=">> \o realm
                        \* , uri="
                        \o <<",", " ", "u", "r", "i", "=", "\"">> \o requestURI
                        \* ", algorithm=
                        \o <<"\"", ",", " ", "a", "l", "g", "o", "r", "i", "t", "h", "m", "=">> \o algoString
                        \o <<",", " ", "n", "o", "n", "c", "e", "=">> \o nonce
                        \o <<",", " ", "n", "c", "=">> \o nc
                        \* , cnonce="
                        \o <<",", " ", "c", "n", "o", "n", "c", "e", "=", "\"">> \o cnonce
                        \* ", qop=
                        \o <<"\"", ",", " ", "q", "o", "p", "=">> \o qop
                        \o <<",", " ", "r", "e", "s", "p", "o", "n", "s", "e", "=">> \o response
                        \o <<",", " ", "u", "s", "e", "r", "h", "a", "s", "h", "=">> \o userhash
                    ret == IF opaque # <<>>
                           THEN head \o <<",", " ", "o", "p", "a", "q", "u", "e", "=">> \o opaque ELSE head
                IN  DigestReturn("end", ret, sess, algoString, qop, a1)

\* getDigestAuth with the values of its locals where it returned
digestAuth(creds, req, resp, rand) ==
    IF resp.isNil \/ resp.headerIsNil
    THEN DigestReturn("resp", <<>>, FALSE, <<>>, <<>>, <<>>)
    ELSE LET parsed == parseWwwAuth(resp.WwwAuthenticate)
         IN  IF parsed.panic THEN DigestPanic
             ELSE digestOf(creds, req, parsed.parameters, rand)

getDigestAuth(creds, req, resp, rand) == digestAuth(creds, req, resp, rand).ret

----------------------------------------------------------------------------
(* Basic construction and the dispatch *)

\* Request.SetBasicAuth: "Basic " and base64 of username:password
SetBasicAuth(username, password) ==
    <<"B", "a", "s", "i", "c", " ">> \o EncodeToString(Bytes(username \o <<":">> \o password))

getBasicAuth(creds) == SetBasicAuth(creds.Username, creds.Password)

\* TryGetAuth falling back to Basic for a scheme it does not know
tryGetAuthFallback(a, req, resp, rand) ==
    LET host == req.Hostname
    IN  IF host \in DOMAIN a.creds
        THEN LET creds == a.creds[host]
             IN  IF ~resp.isNil /\ ~resp.headerIsNil
                 THEN LET scheme == Split(resp.WwwAuthenticate, <<" ">>)[1]
                      IN  IF scheme = <<"D", "i", "g", "e", "s", "t">>
                          THEN getDigestAuth(creds, req, resp, rand)
                          ELSE getBasicAuth(creds)
                 ELSE getBasicAuth(creds)
        ELSE <<>>

tryGetAuth(a, req, resp, rand) ==
    LET host == req.Hostname
    IN  IF host \in DOMAIN a.creds
        THEN LET creds == a.creds[host]
             IN  IF ~resp.isNil /\ ~resp.headerIsNil
                 THEN LET scheme == Split(resp.WwwAuthenticate, <<" ">>)[1]
                      IN  IF scheme = <<"B", "a", "s", "i", "c">> THEN getBasicAuth(creds)
                          ELSE IF scheme = <<"D", "i", "g", "e", "s", "t">>
                               THEN getDigestAuth(creds, req, resp, rand)
                               ELSE <<>>
                 ELSE getBasicAuth(creds)
        ELSE <<>>

----------------------------------------------------------------------------
(* Inputs *)

CredsFile == "creds.txt"
MissingFile == "missing.txt"
Filenames == {"", CredsFile, MissingFile}

hostH == <<"h">>
hostG == <<"g">>
hostX == <<"x">>

\* lines of the credentials files of the store specification
StoreLines == {<<"h", " ", "a", ":", "1">>, <<"h", " ", "b", ":", "2">>, <<"g", " ", "c", ":", "3">>}
FileContents == StringsUpTo(StoreLines, MaxLines)

\* the maps from some of the hosts to some payloads
PartialMaps(hosts, payloads) ==
    UNION {[d -> payloads] : d \in SUBSET hosts}

ExplicitMaps ==
    {NilMap} \cup {MapOf(m) : m \in PartialMaps({hostH, hostG}, {<<"b", ":", "2">>, <<"a", ":", "1">>})}

\* what rand.Read can do: fail, or fill the buffer
Rands ==
    {[err |-> TRUE, b |-> <<>>]}
    \cup {[err |-> FALSE, b |-> [i \in 1..NonceBytes |-> v]] : v \in {0, 255}}

Requests ==
    {Request(<<>>, hostH, <<"/">>), Request(<<"P", "O", "S", "T">>, hostG, <<"/", "p">>),
     Request(<<>>, hostX, <<"/">>)}

Responses ==
    {NilResponse, NilHeaderResponse} \cup
    {Response(h) : h \in {
        <<>>,
        <<"B", "a", "s", "i", "c">>,
        <<"B", "a", "s", "i", "c", " ", "r", "e", "a", "l", "m", "=", "\"", "r", "\"">>,
        <<"b", "a", "s", "i", "c", " ", "r", "e", "a", "l", "m", "=", "\"", "r", "\"">>,
        <<" ", "B", "a", "s", "i", "c">>,
        <<"N", "T", "L", "M", " ", "a", "b", "c">>,
        <<"D", "i", "g", "e", "s", "t">>,
        <<"D", "i", "g", "e", "s", "t", " ", "r", "e", "a", "l", "m", "=", "\"", "r", "\"", ",", " ", "n", "o", "n", "c", "e", "=", "\"", "n", "\"">>,
        <<"D", "i", "g", "e", "s", "t", " ", "r", "e", "a", "l", "m", "=", "\"", "r", "\"", ",", " ", "n", "o", "n", "c", "e", "=", "\"", "n", "\"", ",", " ", "q", "o", "p", "=", "\"", "a", "u", "t", "h", "-", "i", "n", "t", "\"">>,
        <<"D", "i", "g", "e", "s", "t", " ", "r", "e", "a", "l", "m", "=", "\"", "r", "\"", ",", " ", "n", "o", "n", "c", "e", "=">>,
        <<"D", "i", "g", "e", "s", "t", " ", "r", "e", "a", "l", "m", "=", " ", "r">>}}

NoCall == [fn |-> "none"]

----------------------------------------------------------------------------
(* The store and the dispatch as a state machine *)

\* before NewAuthenticator is called, with the credentials file one of contents
InitWith(contents) ==
    /\ pc = "start"
    /\ disk \in [{CredsFile} -> contents]
    /\ credsFilename = ""
    /\ hostsToCreds = NilMap
    /\ fileHostsToCreds = NilMap
    /\ auther = [creds |-> EmptyMap]
    /\ err = NoError
    /\ call = NoCall
    /\ returned = <<>>

\* NewAuthenticator(filename, explicit), called once
Construct(filename, explicit) ==
    /\ pc = "start"
    /\ LET r == newAuthenticator(disk, filename, explicit)
       IN  /\ auther' = r.auther
           /\ err' = r.err
           /\ fileHostsToCreds' = r.fileHostsToCreds
    /\ credsFilename' = filename
    /\ hostsToCreds' = explicit
    /\ pc' = "built"
    /\ call' = NoCall
    /\ UNCHANGED <<disk, returned>>

\* the stores of the dispatch specification: from a one-line file, from an
\* explicit map, from both, from neither
DispatchFiles == {<<<<"h", " ", "a", ":", "1">>>>}
DispatchMaps == {NilMap, MapOf(hostG :> <<"b", ":", "2">>)}

Init == InitWith(DispatchFiles)

NewAuthenticator ==
    \E filename \in {"", CredsFile}, explicit \in DispatchMaps :
        Construct(filename, explicit)

\* auther.TryGetAuth(req, resp) on the built store
TryGetAuth ==
    /\ pc = "built"
    /\ \E req \in Requests, resp \in Responses, rand \in Rands :
        /\ call' = [fn |-> "TryGetAuth", req |-> req, resp |-> resp, rand |-> rand]
        /\ returned' = tryGetAuth(auther, req, resp, rand)
    /\ pc' = "returned"
    /\ UNCHANGED <<disk, credsFilename, hostsToCreds, fileHostsToCreds, auther, err>>

\* the caller takes the returned header; the store is as it was built, ready for
\* the next call
Return ==
    /\ pc = "returned"
    /\ pc' = "built"
    /\ call' = NoCall
    /\ returned' = <<>>
    /\ UNCHANGED <<disk, credsFilename, hostsToCreds, fileHostsToCreds, auther, err>>

Next == NewAuthenticator \/ TryGetAuth \/ Return

Spec == Init /\ [][Next]_vars

----------------------------------------------------------------------------
(* The store built from every file and every explicit map *)

StoreInit == InitWith(FileContents)

StoreNext ==
    \E filename \in Filenames, explicit \in ExplicitMaps : Construct(filename, explicit)

SpecStore == StoreInit /\ [][StoreNext]_vars

----------------------------------------------------------------------------
(* The store built from one file line, of any text *)

LineAlphabet == {"a", " ", ":"}

CredsInit == InitWith({<<line>> : line \in StringsUpTo(LineAlphabet, MaxLineLen)})

CredsNext == Construct(CredsFile, NilMap)

SpecCreds == CredsInit /\ [][CredsNext]_vars

----------------------------------------------------------------------------
(* The challenge parser and unquote applied to headers *)

\* what a quoted value may hold: text, commas, equals signs, spaces and double
\* quotes (a double quote is written \" in the header)
ValueAlphabet == {"a", ",", "=", " ", "\""}
Values == StringsUpTo(ValueAlphabet, MaxValLen)

\* the text of a value between quotes in a header: \" for every "
RECURSIVE Escape(_)
Escape(v) ==
    IF Len(v) = 0 THEN <<>>
    ELSE (IF Head(v) = "\"" THEN <<"\\", "\"">> ELSE <<Head(v)>>) \o Escape(Tail(v))

Quoted(v) == <<"\"">> \o Escape(v) \o <<"\"">>

\* Digest realm="v1"  and  Digest realm="v1", nonce="v2"
ChallengeNames == <<realmKey, nonceKey>>
ChallengeHeader(values) ==
    <<"D", "i", "g", "e", "s", "t", " ">> \o Join([i \in 1..Len(values) |->
                            ChallengeNames[i] \o <<"=">> \o Quoted(values[i])],
                        <<",", " ">>)

ChallengeInputs ==
    {[kind |-> "challenge", header |-> ChallengeHeader(vs), values |-> vs] :
        vs \in {<<v>> : v \in Values} \cup (Values \X Values)}

\* any short header, well formed or not
HeaderAlphabet == {"a", "=", "\"", " ", ","}
FreeInputs ==
    {[kind |-> "free", header |-> h, values |-> <<>>] :
        h \in StringsUpTo(HeaderAlphabet, MaxHeaderLen)}

ParseInit ==
    /\ pc = "start"
    /\ call \in ChallengeInputs \cup FreeInputs
    /\ disk = [f \in {} |-> <<>>]
    /\ credsFilename = ""
    /\ hostsToCreds = NilMap
    /\ fileHostsToCreds = NilMap
    /\ auther = [creds |-> EmptyMap]
    /\ err = NoError
    /\ returned = <<>>

\* parseWwwAuth(header)
ParseWwwAuth ==
    /\ pc = "start"
    /\ returned' = parseWwwAuth(call.header)
    /\ pc' = "parsed"
    /\ UNCHANGED <<disk, credsFilename, hostsToCreds, fileHostsToCreds, auther, err, call>>

\* unquote(v) for every value v of the mapping parseWwwAuth returned
Unquote ==
    /\ pc = "parsed"
    /\ ~returned.panic
    /\ returned' = [returned EXCEPT
                       !.parameters = [n \in DOMAIN @ |-> unquote(@[n])]]
    /\ pc' = "unquoted"
    /\ UNCHANGED <<disk, credsFilename, hostsToCreds, fileHostsToCreds, auther, err, call>>

ParseNext == ParseWwwAuth \/ Unquote

SpecParse == ParseInit /\ [][ParseNext]_vars

----------------------------------------------------------------------------
(* The Digest engine applied to challenges *)

\* a parameter of a challenge: absent, or present with the text after its "="
Absent == [present |-> FALSE, raw |-> <<>>]
Present(raw) == [present |-> TRUE, raw |-> raw]

RealmOptions == {Absent, Present(<<"\"", "r", "\"">>)}
AlgorithmOptions ==
    {Absent, Present(<<>>)} \cup
    {Present(a) : a \in {
        <<"M", "D", "5">>, <<"M", "D", "5", "-", "s", "e", "s", "s">>, <<"S", "H", "A", "-", "2", "5", "6">>, <<"S", "H", "A", "-", "2", "5", "6", "-", "s", "e", "s", "s">>,
        <<"S", "H", "A", "-", "5", "1", "2", "-", "2", "5", "6">>, <<"S", "H", "A", "-", "5", "1", "2", "-", "2", "5", "6", "-", "s", "e", "s", "s">>,
        <<"F", "o", "o">>, <<"\"", "F", "o", "o", "\"">>, <<"-", "s", "e", "s", "s">>, <<"m", "d", "5">>, <<"M", "D", "5", "-", "s", "e", "s", "s", "-", "s", "e", "s", "s">>,
        <<"\"", "M", "D", "5", "\"">>, <<"\"", "M", "D", "5", "-", "s", "e", "s", "s", "\"">>}}
QopOptions ==
    {Absent} \cup
    {Present(q) : q \in {
        <<"\"", "a", "u", "t", "h", "\"">>, <<"a", "u", "t", "h">>, <<"\"", "a", "u", "t", "h", "-", "i", "n", "t", "\"">>, <<"a", "u", "t", "h", "-", "i", "n", "t">>,
        <<"\"", "a", "u", "t", "h", ",", " ", "a", "u", "t", "h", "-", "i", "n", "t", "\"">>, <<"\"", "a", "u", "t", "h", "-", "i", "n", "t", ",", " ", "a", "u", "t", "h", "\"">>, <<"\"", "a", "u", "t", "h", ",", "a", "u", "t", "h", "-", "i", "n", "t", "\"">>}}
UserhashOptions == {Absent, Present(<<"t", "r", "u", "e">>), Present(<<"f", "a", "l", "s", "e">>), Present(<<"\"", "t", "r", "u", "e", "\"">>)}
OpaqueOptions ==
    {Absent, Present(<<>>), Present(<<"\"", "x", "y", "z", "\"">>), Present(<<"\"", "\"">>), Present(<<"x", "y", "z">>)}
\* a nonce, or a header that ends in  nonce=
NonceOptions == {Present(<<"\"", "n", "\"">>), Present(<<>>)}

Challenges ==
    [realm : RealmOptions, algorithm : AlgorithmOptions, qop : QopOptions,
     userhash : UserhashOptions, opaque : OpaqueOptions, nonce : NonceOptions]

\* the parameters of a challenge in the order of the header
ChallengeParts(ch) ==
    <<<<realmKey, ch.realm>>, <<algorithmKey, ch.algorithm>>, <<qopKey, ch.qop>>,
      <<userhashKey, ch.userhash>>, <<opaqueKey, ch.opaque>>, <<nonceKey, ch.nonce>>>>

\* Digest name=raw, name=raw, ...  of the parameters present
DigestHeader(ch) ==
    LET parts == SelectSeq(ChallengeParts(ch), LAMBDA part : part[2].present)
    IN  <<"D", "i", "g", "e", "s", "t", " ">> \o Join([i \in 1..Len(parts) |->
                                parts[i][1] \o <<"=">> \o parts[i][2].raw],
                            <<",", " ">>)

DigestCreds == [Username |-> <<"u">>, Password |-> <<"p">>]
DigestRequest == Request(<<>>, hostH, <<"/">>)

DigestInputs ==
    {[fn |-> "getDigestAuth", creds |-> DigestCreds, req |-> DigestRequest,
      resp |-> Response(DigestHeader(ch)), rand |-> rand, challenge |-> ch] :
        ch \in Challenges, rand \in Rands}

DigestInit ==
    /\ pc = "start"
    /\ call \in DigestInputs
    /\ disk = [f \in {} |-> <<>>]
    /\ credsFilename = ""
    /\ hostsToCreds = NilMap
    /\ fileHostsToCreds = NilMap
    /\ auther = [creds |-> EmptyMap]
    /\ err = NoError
    /\ returned = <<>>

\* getDigestAuth(creds, req, resp); returned keeps the string it returned with the
\* values of its locals at the return
GetDigestAuth ==
    /\ pc = "start"
    /\ returned' = digestAuth(call.creds, call.req, call.resp, call.rand)
    /\ pc' = "returned"
    /\ UNCHANGED <<disk, credsFilename, hostsToCreds, fileHostsToCreds, auther, err, call>>

DigestNext == GetDigestAuth

SpecDigest == DigestInit /\ [][DigestNext]_vars

----------------------------------------------------------------------------
(* What the claims speak of, said without the code's helpers *)

\* where c first occurs in s; 0 when it does not
FirstAt(s, c) ==
    IF \E i \in 1..Len(s) : s[i] = c
    THEN CHOOSE i \in 1..Len(s) : s[i] = c /\ \A j \in 1..(i - 1) : s[j] # c
    ELSE 0

\* the text before the first c, all of s when there is none
BeforeFirst(s, c) == IF FirstAt(s, c) = 0 THEN s ELSE SubSeq(s, 1, FirstAt(s, c) - 1)

\* the text after the first c, nothing when there is none
AfterFirst(s, c) ==
    IF FirstAt(s, c) = 0 THEN <<>> ELSE SubSeq(s, FirstAt(s, c) + 1, Len(s))

\* the credential a payload stands for
ExpectedCredential(payload) ==
    [Username |-> BeforeFirst(payload, ":"), Password |-> AfterFirst(payload, ":")]

\* the lines NewAuthenticator was given to read
LinesRead == IF credsFilename \in DOMAIN disk THEN disk[credsFilename] ELSE <<>>

\* the hosts of the explicit mapping
ExplicitHosts == IF hostsToCreds.isNil THEN {} ELSE DOMAIN hostsToCreds.m

\* the store that holds exactly the credentials of the explicit mapping
ExplicitOnly == [h \in ExplicitHosts |-> ExpectedCredential(hostsToCreds.m[h])]

FileMissing == credsFilename # "" /\ credsFilename \notin DOMAIN disk

\* C2 as claimed: a missing or unreadable credentials file is no failure of
\* NewAuthenticator: it returns no error, and the store holds exactly the
\* credentials of the explicit mapping.
C2_MissingFileIsNoError ==
    (pc = "built" /\ FileMissing) => (err = NoError /\ auther.creds = ExplicitOnly)

\* C2 amended: when the credentials file cannot be opened, NewAuthenticator returns
\* the error of os.Open, together with a store that holds exactly the credentials
\* of the explicit mapping (none when no explicit mapping is given).
C2_MissingFileReturnsOpenError ==
    (pc = "built" /\ FileMissing) => (err = OpenError /\ auther.creds = ExplicitOnly)

C2_Witness ==
    /\ pc = "built"
    /\ credsFilename = MissingFile
    /\ Len(disk[CredsFile]) > 0
    /\ hostH \in ExplicitHosts
    /\ auther.creds = (hostH :> [Username |-> <<"b">>, Password |-> <<"2">>])
    /\ err = OpenError

\* C4: in every store NewAuthenticator builds, a host of the explicit mapping holds
\* the credential of the explicit mapping whatever the file says; a host only in the
\* file holds the credential of its last file line; the store has the hosts of the
\* two sources and no other.
C4_ExplicitWinsLastLineWins ==
    pc = "built" =>
        LET lines == LinesRead
            hostOf(i) == BeforeFirst(lines[i], " ")
            fileHosts == {hostOf(i) : i \in 1..Len(lines)}
            lastLine(h) ==
                lines[CHOOSE i \in 1..Len(lines) :
                        hostOf(i) = h /\ \A j \in (i + 1)..Len(lines) : hostOf(j) # h]
        IN  /\ DOMAIN auther.creds = fileHosts \cup ExplicitHosts
            /\ \A h \in ExplicitHosts :
                   auther.creds[h] = ExpectedCredential(hostsToCreds.m[h])
            /\ \A h \in fileHosts \ ExplicitHosts :
                   auther.creds[h] = ExpectedCredential(AfterFirst(lastLine(h), " "))

\* the file names h twice and g once, and the explicit mapping gives g another
\* credential than the file
C4_Witness ==
    /\ pc = "built"
    /\ credsFilename = CredsFile
    /\ disk[CredsFile] = <<<<"h", " ", "a", ":", "1">>, <<"h", " ", "b", ":", "2">>, <<"g", " ", "c", ":", "3">>>>
    /\ ExplicitHosts = {hostG}
    /\ hostsToCreds.m[hostG] = <<"a", ":", "1">>
    /\ auther.creds[hostH] = [Username |-> <<"b">>, Password |-> <<"2">>]
    /\ auther.creds[hostG] = [Username |-> <<"a">>, Password |-> <<"1">>]

\* C5: a file line is split at its first space only (host before, payload after,
\* later spaces kept) and a payload at its first colon only (username before,
\* password after, later colons kept); an empty payload gives an empty username
\* and an empty password.
C5_SplitAtFirstSeparator ==
    pc = "built" =>
        LET line == disk[CredsFile][1]
            host == BeforeFirst(line, " ")
            payload == AfterFirst(line, " ")
        IN  /\ fileHostsToCreds = MapOf(host :> payload)
            /\ auther.creds = (host :> ExpectedCredential(payload))
            /\ payload = <<>> =>
                   auther.creds[host] = [Username |-> <<>>, Password |-> <<>>]

\* the line "a a: :a": two spaces and two colons
C5_Witness ==
    /\ pc = "built"
    /\ disk[CredsFile] = <<<<"a", " ", "a", ":", " ", ":", "a">>>>
    /\ fileHostsToCreds.m[<<"a">>] = <<"a", ":", " ", ":", "a">>
    /\ auther.creds[<<"a">>] = [Username |-> <<"a">>, Password |-> <<" ", ":", "a">>]

\* the Basic header of a credential
ExpectedBasic(creds) ==
    <<"B", "a", "s", "i", "c", " ">> \o EncodeToString(Bytes(creds.Username \o <<":">> \o creds.Password))

\* C3: TryGetAuth returns "" when no credential is stored for the request's
\* hostname; with a credential it returns the Basic header when the response or
\* its header container is absent; with a credential and a response it returns the
\* Basic header when the first space-delimited word of Www-Authenticate is
\* "Basic", the result of getDigestAuth when it is "Digest", and "" otherwise.
C3_DecisionTable ==
    pc = "returned" =>
        LET req == call.req
            resp == call.resp
            known == req.Hostname \in DOMAIN auther.creds
            creds == auther.creds[req.Hostname]
            word == BeforeFirst(resp.WwwAuthenticate, " ")
        IN  /\ ~known => returned = <<>>
            /\ (known /\ (resp.isNil \/ resp.headerIsNil)) =>
                   returned = ExpectedBasic(creds)
            /\ (known /\ ~resp.isNil /\ ~resp.headerIsNil) =>
                   /\ word = <<"B", "a", "s", "i", "c">> => returned = ExpectedBasic(creds)
                   /\ word = <<"D", "i", "g", "e", "s", "t">> =>
                          returned = getDigestAuth(creds, req, resp, call.rand)
                   /\ word \notin {<<"B", "a", "s", "i", "c">>, <<"D", "i", "g", "e", "s", "t">>} => returned = <<>>
            /\ (known /\ creds = [Username |-> <<"a">>, Password |-> <<"1">>]
                      /\ (resp.isNil \/ word = <<"B", "a", "s", "i", "c">>)) =>
                   returned = <<"B", "a", "s", "i", "c", " ", "Y", "T", "o", "x">>

\* a credential is stored for the host and the response asks for NTLM
C3_Witness ==
    /\ pc = "returned"
    /\ call.req.Hostname \in DOMAIN auther.creds
    /\ call.resp = Response(<<"N", "T", "L", "M", " ", "a", "b", "c">>)
    /\ returned = <<>>

\* C6: for a header  Scheme n1="v1", n2="v2"  whose quoted values hold commas,
\* equals signs and \" for double quotes, parseWwwAuth maps each name to its value
\* with the quotes around it kept and maps nothing else (an equals sign inside
\* quotes starts no parameter), and unquote of the mapped value is the value, the
\* outer quotes removed and every \" turned into ".
C6_ParseUnquoteRoundTrip ==
    (pc \in {"parsed", "unquoted"} /\ call.kind = "challenge") =>
        LET names == {ChallengeNames[i] : i \in 1..Len(call.values)}
        IN  /\ ~returned.panic
            /\ DOMAIN returned.parameters = names
            /\ \A i \in 1..Len(call.values) :
                   returned.parameters[ChallengeNames[i]] =
                       IF pc = "parsed" THEN Quoted(call.values[i]) ELSE call.values[i]

\* realm holds an equals sign and a double quote, nonce a comma
C6_Witness ==
    /\ pc = "unquoted"
    /\ call.kind = "challenge"
    /\ call.header = <<"D", "i", "g", "e", "s", "t", " ", "r", "e", "a", "l", "m", "=", "\"", "=", "\\", "\"", "\"", ",", " ", "n", "o", "n", "c", "e", "=", "\"", ",", "a", "\"">>
    /\ returned.parameters[realmKey] = <<"=", "\"">>
    /\ returned.parameters[nonceKey] = <<",", "a">>

\* C10 as claimed: parseWwwAuth returns a mapping for every header, the empty
\* header, a header that ends in "=" and a "=" followed by a space included; it
\* never ends in a run-time fault.
C10_ParserIsTotal ==
    pc = "parsed" => ~returned.panic

----------------------------------------------------------------------------
(* Claims about the Digest engine *)

\* the places (from 1) where sub occurs in s
Occurrences(s, sub) ==
    {i \in 1..(Len(s) - Len(sub) + 1) : SubSeq(s, i, i + Len(sub) - 1) = sub}

\* where sub first occurs in s; 0 when it does not
FirstOccurrence(s, sub) ==
    IF Occurrences(s, sub) = {} THEN 0
    ELSE CHOOSE i \in Occurrences(s, sub) : \A j \in Occurrences(s, sub) : i <= j

EndsWith(s, t) == Len(s) >= Len(t) /\ SubSeq(s, Len(s) - Len(t) + 1, Len(s)) = t

\* the value a parameter's text stands for: the text between its quotes
Unquoted(raw) ==
    IF Len(raw) >= 2 /\ raw[1] = "\"" /\ raw[Len(raw)] = "\""
    THEN SubSeq(raw, 2, Len(raw) - 1) ELSE raw

\* a parameter the challenge supplies with a value
Supplied(param) == param.present /\ param.raw # <<>>

\* getDigestAuth has returned a string (it did not stop in a run-time fault)
DigestReturned == pc = "returned" /\ ~returned.panic

\* the first option the qop parameter lists
FirstQop(ch) == BeforeFirst(Unquoted(ch.qop.raw), ",")

\* C1 as claimed: when auth-int is the first option of the challenge's qop,
\* getDigestAuth returns ""; it returns a header only when that option is auth
\* or the challenge has no qop.
C1_AuthIntReturnsEmpty ==
    DigestReturned =>
        LET ch == call.challenge
        IN  /\ (Supplied(ch.qop) /\ FirstQop(ch) = <<"a", "u", "t", "h", "-", "i", "n", "t">>) => returned.ret = <<>>
            /\ returned.ret # <<>> => (~Supplied(ch.qop) \/ FirstQop(ch) = <<"a", "u", "t", "h">>)

\* C7 as claimed: a challenge with a non-empty opaque gives an output that ends
\* with the opaque field carrying it; a challenge with no opaque, or an empty one,
\* gives an output with no opaque= field.
C7_OpaqueOnlyWhenNonEmpty ==
    (DigestReturned /\ returned.ret # <<>>) =>
        LET opaque == call.challenge.opaque
        IN  /\ (opaque.present /\ Unquoted(opaque.raw) # <<>>) =>
                   \/ EndsWith(returned.ret, <<",", " ", "o", "p", "a", "q", "u", "e", "=">> \o opaque.raw)
                   \/ EndsWith(returned.ret, <<",", " ", "o", "p", "a", "q", "u", "e", "=">> \o Unquoted(opaque.raw))
            /\ (~opaque.present \/ Unquoted(opaque.raw) = <<>>) =>
                   Occurrences(returned.ret, <<"o", "p", "a", "q", "u", "e", "=">>) = {}

\* the names of the fields of the output, in the order claimed
FieldMarkers ==
    <<<<"D", "i", "g", "e", "s", "t", " ", "u", "s", "e", "r", "n", "a", "m", "e", "=">>, <<",", " ", "r", "e", "a", "l", "m", "=">>, <<",", " ", "u", "r", "i", "=">>, <<",", " ", "a", "l", "g", "o", "r", "i", "t", "h", "m", "=">>, <<",", " ", "n", "o", "n", "c", "e", "=">>,
      <<",", " ", "n", "c", "=">>, <<",", " ", "c", "n", "o", "n", "c", "e", "=">>, <<",", " ", "q", "o", "p", "=">>, <<",", " ", "r", "e", "s", "p", "o", "n", "s", "e", "=">>, <<",", " ", "u", "s", "e", "r", "h", "a", "s", "h", "=">>>>

\* the text of the k-th field of out: from its name to the next field's name,
\* or to the opaque field, or to the end
FieldText(out, k) ==
    LET from == FirstOccurrence(out, FieldMarkers[k]) + Len(FieldMarkers[k])
        next == IF k < Len(FieldMarkers) THEN FirstOccurrence(out, FieldMarkers[k + 1])
                ELSE FirstOccurrence(out, <<",", " ", "o", "p", "a", "q", "u", "e", "=">>)
    IN  SubSeq(out, from, IF next = 0 THEN Len(out) ELSE next - 1)

\* C8 as claimed: in a non-empty output the fields come in the order username,
\* realm, uri, algorithm, nonce, nc, cnonce, qop, response, userhash; realm,
\* algorithm, nonce and userhash carry the raw value of the challenge's parameter
\* when the challenge supplies it; userhash is false when it does not.
C8_FieldOrderAndRawValues ==
    (DigestReturned /\ returned.ret # <<>>) =>
        LET out == returned.ret
            ch == call.challenge
            at(k) == FirstOccurrence(out, FieldMarkers[k])
        IN  /\ at(1) = 1
            /\ \A k \in 1..(Len(FieldMarkers) - 1) : at(k) < at(k + 1)
            /\ Supplied(ch.realm) => FieldText(out, 2) = ch.realm.raw
            /\ Supplied(ch.algorithm) => FieldText(out, 4) = ch.algorithm.raw
            /\ Supplied(ch.nonce) => FieldText(out, 5) = ch.nonce.raw
            /\ Supplied(ch.userhash) => FieldText(out, 10) = ch.userhash.raw
            /\ ~ch.userhash.present => FieldText(out, 10) = <<"f", "a", "l", "s", "e">>

Supported == {<<"M", "D", "5">>, <<"S", "H", "A", "-", "2", "5", "6">>, <<"S", "H", "A", "-", "5", "1", "2", "-", "2", "5", "6">>}

\* a value with one trailing -sess removed
WithoutSess(v) == IF EndsWith(v, <<"-", "s", "e", "s", "s">>) THEN SubSeq(v, 1, Len(v) - 5) ELSE v

\* C9 as claimed: getDigestAuth returns "" for every challenge whose algorithm
\* parameter, one trailing -sess removed, is not MD5, SHA-256 or SHA-512-256; an
\* absent algorithm is taken for MD5 and does not fail there; the session mode is
\* set exactly when the value supplied ends with -sess.
C9_NoFallbackUnlessAbsent ==
    DigestReturned =>
        LET algorithm == call.challenge.algorithm
        IN  /\ (algorithm.present /\ WithoutSess(algorithm.raw) \notin Supported) =>
                   (returned.ret = <<>> /\ returned.at = "algorithm")
            /\ ~algorithm.present =>
                   (returned.algoString = <<"M", "D", "5">> /\ returned.at # "algorithm")
            /\ returned.sess <=> (algorithm.present /\ EndsWith(algorithm.raw, <<"-", "s", "e", "s", "s">>))

\* C9 amended: getDigestAuth returns "" for every challenge whose algorithm
\* parameter is not empty and, one trailing -sess removed, is not MD5, SHA-256 or
\* SHA-512-256; an absent or empty algorithm is taken for MD5 and does not fail
\* there; the session mode is set exactly when the value supplied ends with -sess.
C9_NoFallbackUnlessAbsentOrEmpty ==
    DigestReturned =>
        LET algorithm == call.challenge.algorithm
        IN  /\ (Supplied(algorithm) /\ WithoutSess(algorithm.raw) \notin Supported) =>
                   (returned.ret = <<>> /\ returned.at = "algorithm")
            /\ ~Supplied(algorithm) =>
                   (returned.algoString = <<"M", "D", "5">> /\ returned.at # "algorithm")
            /\ returned.sess <=> (algorithm.present /\ EndsWith(algorithm.raw, <<"-", "s", "e", "s", "s">>))

\* the bare value -sess: session mode is set and no algorithm is left to resolve
C9_Witness ==
    /\ DigestReturned
    /\ call.challenge.algorithm = Present(<<"-", "s", "e", "s", "s">>)
    /\ returned.sess
    /\ returned.at = "algorithm"
    /\ returned.ret = <<>>

====
